---------------------------- MODULE Spec2Model ----------------------------
(***************************************************************************)
(* Gym management application: the service layer (firebase/services.ts),   *)
(* the login view and the session store, as state machines over the        *)
(* documents of the store.                                                 *)
(*                                                                         *)
(* Time.  An instant is a number of ticks since the epoch (UTC); a day has *)
(* TicksPerDay ticks.  A date string 'YYYY-MM-DD' is the number of its     *)
(* day.  The browser's local time is UTC + tz ticks.                       *)
(*                                                                         *)
(* Optional fields of a document (paymentDate?, paymentMethod?) are        *)
(* sequences of length 0 (absent) or 1 (present).                          *)
(*                                                                         *)
(* Fields that no operation reads (names, bill number, description,        *)
(* addresses) are left out of the documents; the members of the package    *)
(* specifications carry their updatedAt timestamp, the others leave it out.*)
(***************************************************************************)
EXTENDS Integers, Sequences, FiniteSets, TLC

\* ------------------------------------------------------------------ bounds
TicksPerDay == 2
MaxDay == 2
MaxBills == 2
MaxAccounts == 2
MaxPackages == 2
MaxOrders == 2

Days == 0..MaxDay
\* The clock runs through day 1, which has a yesterday and a tomorrow in Days.
FirstTick == TicksPerDay
LastTick == 2 * TicksPerDay - 1
TzOffsets == {0 - 1, 0, 1}
Amounts == {300, 500}
PaymentMethods == {"Cash", "Card"}
BillIds == 1..MaxBills
AccountIds == 1..MaxAccounts
Roles == {"admin", "member", "user"}
Passwords == {"secret1", "Secret1"}
FirstNames == {"Alex", "Sam"}
\* Email addresses as typed, character by character: "a", "A", " a ", "b", "B ".
EmailInputs ==
  {<<"a">>, <<"A">>, <<" ", "a", " ">>, <<"b">>, <<"B", " ">>}
Tabs == {"tab1", "tab2"}
MemberIdPool == {"m1", "m2"}
MembershipTypes == {"basic", "premium"}
Opt(S) == {<<>>} \cup {<<v>> : v \in S}

VARIABLES
  now,        \* the current instant, in ticks (UTC)
  tz,         \* the browser's offset from UTC, in ticks
  members,    \* collection 'members': member id -> document
  bills,      \* collection 'bills': bill id -> document
  nextBill,   \* the next document id addDoc hands out in 'bills'
  thrown,     \* what the last service call threw to its caller ("" when it returned)
  accounts,   \* collection 'accounts': account id -> document
  nextAccount,\* the next document id addDoc hands out in 'accounts'
  session,    \* localStorage['gym-management-auth']: <<>> or <<the session>>
  loginError, \* the error the login view shows ("" for none)
  inflight,   \* createAccount calls in progress: browser tab -> its position
  calc,       \* the calculateEndDate call under study: <<>> or <<arguments, result>>
  packages,   \* collection 'feePackages': package id -> document
  nextPackage,\* the next document id addDoc hands out in 'feePackages'
  supplements,\* collection 'supplements': supplement id -> document
  orders,     \* collection 'supplementOrders': order id -> document
  nextOrder,  \* the next document id addDoc hands out in 'supplementOrders'
  orderCalls, \* createOrder calls in progress: browser tab -> its position
  route,      \* the router's current location
  targets,    \* the getTargetMembers call under study: <<>> or <<arguments, result>>
  selectedMember, \* the members list's open details: <<>> or <<the member's id>>
  editForm,   \* the edit-member form: <<>> or <<its fields>>
  shownBills  \* the bills the member's bill-notifications view holds

ledgerVars == <<now, tz, members, bills, nextBill>>
accountVars == <<accounts, nextAccount, session, loginError, inflight>>
packageVars == <<calc, packages, nextPackage>>
shopVars == <<supplements, orders, nextOrder, orderCalls>>
\* What the ledger, the directory and the login view never touch.
otherVars == <<calc, packages, nextPackage, supplements, orders, nextOrder, orderCalls,
               route, targets, selectedMember, editForm, shownBills>>
\* The same without the router's location.
offRouteVars == <<calc, packages, nextPackage, supplements, orders, nextOrder, orderCalls,
                 targets, selectedMember, editForm, shownBills>>
vars == <<now, tz, members, bills, nextBill, thrown,
          accounts, nextAccount, session, loginError, inflight,
          calc, packages, nextPackage, supplements, orders, nextOrder, orderCalls,
          route, targets, selectedMember, editForm, shownBills>>

\* ------------------------------------------------------------ JavaScript Date
\* new Date('YYYY-MM-DD'): a date-only string is midnight UTC of that day.
ParseDate(d) == d * TicksPerDay

\* date.setHours(0, 0, 0, 0): midnight, in local time, of the local day of t.
SetHoursZero(t) == ((t + tz) \div TicksPerDay) * TicksPerDay - tz

\* date.toISOString().split('T')[0]: the UTC day of t.
ToISODate(t) == t \div TicksPerDay

\* The calendar day the user's clock shows.
Today == (now + tz) \div TicksPerDay

Max(a, b) == IF a >= b THEN a ELSE b

\* ------------------------------------------------------------ memberService
\* getMemberById: the document, or null (here: the empty sequence).
getMemberById(id) == IF id \in DOMAIN members THEN <<members[id]>> ELSE <<>>

\* updateDoc: the given fields replace the document's, the others stay.
Merge(document, fields) ==
  [f \in DOMAIN document |-> IF f \in DOMAIN fields THEN fields[f] ELSE document[f]]

\* updateMember(id, memberData), as a value: the collection after the update.
\* The write carries updatedAt: Timestamp.now() besides the given fields; it
\* shows on the documents that carry their timestamp.
updateMember(id, memberData) ==
  [members EXCEPT ![id] = Merge(members[id], memberData @@ [updatedAt |-> now])]

\* ------------------------------------------------------------ billService
billStatusAtCreation(dueDate) ==
  IF SetHoursZero(ParseDate(dueDate)) < SetHoursZero(now) THEN "Overdue" ELSE "Pending"

createBill(memberId, amount, dueDate) ==
  /\ nextBill <= MaxBills
  /\ bills' = bills @@ (nextBill :> [memberId |-> memberId,
                                     amount |-> amount,
                                     dueDate |-> dueDate,
                                     status |-> billStatusAtCreation(dueDate),
                                     paymentDate |-> <<>>,
                                     paymentMethod |-> <<>>])
  /\ nextBill' = nextBill + 1
  /\ LET member == getMemberById(memberId) IN
       IF member # <<>>
       THEN members' = updateMember(memberId, [dues |-> member[1].dues + amount])
       ELSE members' = members
  /\ thrown' = ""
  /\ UNCHANGED <<now, tz>>
  /\ UNCHANGED accountVars
  /\ UNCHANGED otherVars

\* createBill failing after the insert, had the catch block deleted the bill.
createBillFailsAfterInsert_RolledBack(memberId, amount, dueDate) ==
  /\ nextBill <= MaxBills
  /\ nextBill' = nextBill + 1
  /\ thrown' = "store error"
  /\ UNCHANGED <<now, tz, members, bills>>
  /\ UNCHANGED accountVars
  /\ UNCHANGED otherVars

\* createBill when the store fails after the insert (the member read of line 312
\* or the dues write of line 315 rejects): the catch block logs and rethrows.
createBillFailsAfterInsert(memberId, amount, dueDate) ==
  /\ nextBill <= MaxBills
  /\ bills' = bills @@ (nextBill :> [memberId |-> memberId,
                                     amount |-> amount,
                                     dueDate |-> dueDate,
                                     status |-> billStatusAtCreation(dueDate),
                                     paymentDate |-> <<>>,
                                     paymentMethod |-> <<>>])
  /\ nextBill' = nextBill + 1
  /\ thrown' = "store error"
  /\ UNCHANGED <<now, tz, members>>
  /\ UNCHANGED accountVars
  /\ UNCHANGED otherVars

\* The dues after a payment, had the subtraction not been clamped.
duesAfterPayment_Unclamped(dues, amount) == dues - amount

duesAfterPayment(dues, amount) == Max(0, dues - amount)

markBillAsPaid(billId, paymentMethod) ==
  /\ IF billId \in DOMAIN bills
     THEN LET billData == bills[billId]
              member == getMemberById(billData.memberId) IN
          /\ bills' = [bills EXCEPT ![billId] =
                         Merge(@, [status |-> "Paid",
                                   paymentDate |-> <<ToISODate(now)>>,
                                   paymentMethod |-> <<paymentMethod>>])]
          /\ IF member # <<>>
             THEN members' = updateMember(billData.memberId,
                               [dues |-> duesAfterPayment(member[1].dues, billData.amount)])
             ELSE members' = members
     ELSE UNCHANGED <<bills, members>>
  /\ thrown' = ""
  /\ UNCHANGED <<now, tz, nextBill>>
  /\ UNCHANGED accountVars
  /\ UNCHANGED otherVars

\* Mutant: the dues are adjusted for a Paid bill too.
deleteBillAdjustsDues_Always(billData) == TRUE

deleteBillAdjustsDues(billData) == billData.status # "Paid"

deleteBill(billId) ==
  /\ IF billId \in DOMAIN bills
     THEN LET billData == bills[billId]
              member == getMemberById(billData.memberId) IN
          /\ bills' = [b \in DOMAIN bills \ {billId} |-> bills[b]]
          /\ IF deleteBillAdjustsDues(billData) /\ member # <<>>
             THEN members' = updateMember(billData.memberId,
                               [dues |-> Max(0, member[1].dues - billData.amount)])
             ELSE members' = members
     ELSE UNCHANGED <<bills, members>>
  /\ thrown' = ""
  /\ UNCHANGED <<now, tz, nextBill>>
  /\ UNCHANGED accountVars
  /\ UNCHANGED otherVars

\* ------------------------------------------------------------ the clock
\* The clock advancing, had a sweep moved the Pending bills past their due
\* date to Overdue.
Tick_OverdueSweep ==
  /\ now < LastTick
  /\ now' = now + 1
  /\ bills' = [b \in DOMAIN bills |->
                 IF bills[b].status = "Pending"
                    /\ SetHoursZero(ParseDate(bills[b].dueDate)) < SetHoursZero(now')
                 THEN [bills[b] EXCEPT !.status = "Overdue"]
                 ELSE bills[b]]
  /\ UNCHANGED <<tz, members, nextBill, thrown>>
  /\ UNCHANGED accountVars
  /\ UNCHANGED otherVars

Tick ==
  /\ now < LastTick
  /\ now' = now + 1
  /\ UNCHANGED <<tz, members, bills, nextBill, thrown>>
  /\ UNCHANGED accountVars
  /\ UNCHANGED otherVars

\* ------------------------------------------------------------ the ledger
TheMember == "m1"

NewMember(dues) ==
  [membershipType |-> "basic", startDate |-> 0, endDate |-> MaxDay,
   status |-> "Active", dues |-> dues]

NoCall == [pc |-> "idle", payload |-> <<>>]

\* No createOrder call is running in the tab.
NoOrderCall == [pc |-> "idle", order |-> <<>>, items |-> <<>>, read |-> <<>>]

\* The location /login, without a query.
LoginLocation == [name |-> "login", redirect |-> <<>>]

\* No packages, no supplements, no orders, and the login page on screen.
NoOther ==
  /\ calc = <<>>
  /\ packages = <<>>
  /\ nextPackage = 1
  /\ supplements = <<>>
  /\ orders = <<>>
  /\ nextOrder = 1
  /\ orderCalls = [tab \in Tabs |-> NoOrderCall]
  /\ route = LoginLocation
  /\ targets = <<>>
  /\ selectedMember = <<>>
  /\ editForm = <<>>
  /\ shownBills = {}

NoAccounts ==
  /\ accounts = <<>>
  /\ nextAccount = 1
  /\ session = <<>>
  /\ loginError = ""
  /\ inflight = [tab \in Tabs |-> NoCall]

InitLedger ==
  /\ now \in FirstTick..LastTick
  /\ tz \in TzOffsets
  /\ members = (TheMember :> NewMember(0))
  /\ bills = <<>>
  /\ nextBill = 1
  /\ thrown = ""
  /\ NoAccounts
  /\ NoOther

NextLedger ==
  \/ \E amount \in Amounts, dueDate \in Days : createBill(TheMember, amount, dueDate)
  \/ \E billId \in BillIds, method \in PaymentMethods : markBillAsPaid(billId, method)
  \/ \E billId \in BillIds : deleteBill(billId)
  \/ Tick

\* The ledger, every call running to completion.
Spec == InitLedger /\ [][NextLedger]_vars

\* The ledger over a store that may fail between the two writes of createBill.
NextLedgerFaults ==
  \/ NextLedger
  \/ \E amount \in Amounts, dueDate \in Days :
       createBillFailsAfterInsert(TheMember, amount, dueDate)

SpecLedgerFaults == InitLedger /\ [][NextLedgerFaults]_vars

\* ------------------------------------------------------------ strings
\* String.prototype.toLowerCase, over the letters of the model.
toLowerChar(c) == CASE c = "A" -> "a" [] c = "B" -> "b" [] c = "C" -> "c" [] OTHER -> c
toLowerCase(str) == [i \in 1..Len(str) |-> toLowerChar(str[i])]

\* String.prototype.trim: the string without its leading and trailing blanks.
RECURSIVE trim(_)
trim(str) ==
  IF str = <<>> THEN str
  ELSE IF Head(str) = " " THEN trim(Tail(str))
  ELSE IF str[Len(str)] = " " THEN trim(SubSeq(str, 1, Len(str) - 1))
  ELSE str

normalizeEmail(email) == toLowerCase(trim(email))

\* ------------------------------------------------------------ accountService
DuplicateEmail == "An account with this email already exists."

\* where('normalizedEmail', '==', normalizedEmail): the ids the query matches.
\* limit(1) returns one of them, whichever the store lists first.
accountsByNormalizedEmail(normalizedEmail) ==
  {a \in DOMAIN accounts : accounts[a].normalizedEmail = normalizedEmail}

\* getAccountByEmail: the possible results, <<>> (null) or <<id>>.
getAccountByEmail(email) ==
  LET found == accountsByNormalizedEmail(normalizeEmail(email)) IN
  IF found = {} THEN {<<>>} ELSE {<<a>> : a \in found}

emailExists(email) == \E existing \in getAccountByEmail(email) : existing # <<>>

\* Mutant: the lookup key is stored as typed, not normalized.
newAccountDoc_RawKey(payload) ==
  [firstName |-> payload.firstName,
   email |-> normalizeEmail(payload.email),
   normalizedEmail |-> payload.email,
   password |-> payload.password,
   role |-> payload.role]

\* The document createAccount hands to addDoc.
newAccountDoc(payload) ==
  [firstName |-> payload.firstName,
   email |-> normalizeEmail(payload.email),
   normalizedEmail |-> normalizeEmail(payload.email),
   password |-> payload.password,
   role |-> payload.role]

\* Mutant: the store refuses a second document with the same normalizedEmail.
accountsAfterInsert_Unique(payload) ==
  IF emailExists(payload.email) THEN accounts
  ELSE accounts @@ (nextAccount :> newAccountDoc(payload))

\* addDoc(collection(db, 'accounts'), ...): the collection with the new document.
accountsAfterInsert(payload) == accounts @@ (nextAccount :> newAccountDoc(payload))

createAccount(payload) ==
  /\ nextAccount <= MaxAccounts
  /\ IF emailExists(normalizeEmail(payload.email))
     THEN /\ thrown' = DuplicateEmail
          /\ UNCHANGED <<accounts, nextAccount>>
     ELSE /\ accounts' = accountsAfterInsert(payload)
          /\ nextAccount' = nextAccount + 1
          /\ thrown' = ""
  /\ UNCHANGED <<session, loginError, inflight>>
  /\ UNCHANGED ledgerVars
  /\ UNCHANGED otherVars

\* createAccount as the store sees it: the existence query and the insert are
\* two round trips, and calls of other tabs may run between them.
createAccountCheck(tab, payload) ==
  /\ inflight[tab].pc = "idle"
  /\ IF emailExists(normalizeEmail(payload.email))
     THEN inflight' = [inflight EXCEPT ![tab] = [pc |-> "rejected", payload |-> <<payload>>]]
     ELSE inflight' = [inflight EXCEPT ![tab] = [pc |-> "checked", payload |-> <<payload>>]]
  /\ UNCHANGED <<accounts, nextAccount, session, loginError, thrown>>
  /\ UNCHANGED ledgerVars
  /\ UNCHANGED otherVars

createAccountInsert(tab) ==
  /\ inflight[tab].pc = "checked"
  /\ nextAccount <= MaxAccounts
  /\ accounts' = accountsAfterInsert(inflight[tab].payload[1])
  /\ nextAccount' = nextAccount + 1
  /\ inflight' = [inflight EXCEPT ![tab].pc = "created"]
  /\ UNCHANGED <<session, loginError, thrown>>
  /\ UNCHANGED ledgerVars
  /\ UNCHANGED otherVars

\* verifyCredentials: the possible results, <<>> (null) or <<id>>.
\* Mutant: the password is not compared.
passwordMatches_Any(stored, given) == TRUE

passwordMatches(stored, given) == stored = given

verifyCredentials(email, password) ==
  {IF account = <<>> THEN <<>>
   ELSE IF ~passwordMatches(accounts[account[1]].password, password) THEN <<>>
   ELSE account : account \in getAccountByEmail(email)}

\* The payload, had the empty password been taken as a password.
updatePayload_EmptyPassword(updates) ==
  [f \in {g \in {"firstName", "role", "password"} : updates[g] # <<>>}
        \cup (IF updates.email # <<>> THEN {"email", "normalizedEmail"} ELSE {})
     |-> IF f \in {"email", "normalizedEmail"} THEN normalizeEmail(updates.email[1])
         ELSE updates[f][1]]

\* The fields updateAccount hands to updateDoc (updatedAt left out).
updatePayload(updates) ==
  [f \in {g \in {"firstName", "role"} : updates[g] # <<>>}
        \cup (IF updates.password # <<>> /\ updates.password # <<"">> THEN {"password"} ELSE {})
        \cup (IF updates.email # <<>> THEN {"email", "normalizedEmail"} ELSE {})
     |-> IF f \in {"email", "normalizedEmail"} THEN normalizeEmail(updates.email[1])
         ELSE updates[f][1]]

\* Mutant: the uniqueness check of updateAccount is skipped.
emailTakenByOther_Never(id, existingDoc) == FALSE

\* The uniqueness check of updateAccount, for one result of its limit(1) query.
emailTakenByOther(id, existingDoc) == existingDoc # <<>> /\ existingDoc[1] # id

updateAccount(id, updates) ==
  /\ \E existingDoc \in (IF updates.email = <<>> THEN {<<>>}
                         ELSE getAccountByEmail(updates.email[1])) :
       IF emailTakenByOther(id, existingDoc)
       THEN /\ thrown' = DuplicateEmail
            /\ UNCHANGED accounts
       ELSE IF id \notin DOMAIN accounts
       THEN /\ thrown' = "not-found"
            /\ UNCHANGED accounts
       ELSE /\ accounts' = [accounts EXCEPT ![id] = Merge(@, updatePayload(updates))]
            /\ thrown' = ""
  /\ UNCHANGED <<nextAccount, session, loginError, inflight>>
  /\ UNCHANGED ledgerVars
  /\ UNCHANGED otherVars

\* ------------------------------------------------------------ session store
\* getSession over a stored value: null (here <<>>) when nothing is stored,
\* when JSON.parse throws, and when the parsed object has no role.
parseSession(stored) ==
  IF stored = <<>> THEN <<>>
  ELSE IF "raw" \in DOMAIN stored[1] THEN <<>>
  ELSE IF "role" \notin DOMAIN stored[1] THEN <<>>
  ELSE stored

getSession == parseSession(session)

\* updateSession(updates), as a value: what is stored afterwards.
updateSession(updates) ==
  LET current == getSession IN
  IF current = <<>> THEN session ELSE <<Merge(current[1], updates)>>

\* resetClientState: localStorage.clear().
storageAfterReset_Kept(stored) == stored

storageAfterReset(stored) == <<>>

\* ------------------------------------------------------------ router
\* Route names; "unknown" is a path that matches no route record (no name, no
\* meta), "root" is the path '/', whose record redirects to add-member.
\* to.meta is the parent's meta merged with the child's.
PublicRoutes == {"login", "signup"}
RouteNames ==
  PublicRoutes \cup {"root", "add-member", "create-bills", "member-dashboard",
                     "user-home", "unknown"}

\* The route a request resolves to before the guard sees it: a record with a
\* redirect is replaced by its target.
recordRedirect(name) == IF name = "root" THEN "add-member" ELSE name

routeMeta(name) ==
  CASE name \in PublicRoutes ->
         [allowAnonymous |-> TRUE, requiresAuth |-> FALSE, roles |-> {}]
    [] name \in {"add-member", "create-bills"} ->
         [allowAnonymous |-> FALSE, requiresAuth |-> TRUE, roles |-> {"admin"}]
    [] name = "member-dashboard" ->
         [allowAnonymous |-> FALSE, requiresAuth |-> TRUE, roles |-> {"member"}]
    [] name = "user-home" ->
         [allowAnonymous |-> FALSE, requiresAuth |-> TRUE, roles |-> {"user"}]
    [] OTHER ->
         [allowAnonymous |-> FALSE, requiresAuth |-> FALSE, roles |-> {}]

defaultRouteByRole ==
  [admin |-> "add-member", member |-> "member-dashboard", user |-> "user-home"]

Location(name) == [name |-> name, redirect |-> <<>>]

\* Boolean(to.meta.allowAnonymous)
isPublic_Unprotected(meta) == meta.allowAnonymous \/ ~meta.requiresAuth

\* The same, had no route been open to the anonymous.
isPublic_Never(meta) == FALSE

isPublic(meta) == meta.allowAnonymous

\* The guard without its check of the required roles.
beforeEach_NoRoleCheck(sess, to) ==
  LET meta == routeMeta(to.name)
      toLogin == [name |-> "login", redirect |-> <<to.name>>] IN
  IF sess = <<>> /\ ~isPublic(meta) THEN toLogin
  ELSE IF sess # <<>> /\ to.name \in PublicRoutes
  THEN Location(defaultRouteByRole[sess[1].role])
  ELSE IF meta.requiresAuth /\ sess = <<>> THEN toLogin
  ELSE to

\* router.beforeEach: where the guard sends a navigation to `to` (the location
\* itself when it calls next()).
beforeEach(sess, to) ==
  LET meta == routeMeta(to.name)
      toLogin == [name |-> "login", redirect |-> <<to.name>>] IN
  IF sess = <<>> /\ ~isPublic(meta) THEN toLogin
  ELSE IF sess # <<>> /\ to.name \in PublicRoutes
  THEN Location(defaultRouteByRole[sess[1].role])
  ELSE IF meta.roles # {} /\ sess # <<>> /\ sess[1].role = "admin" THEN to
  ELSE IF meta.roles # {} /\ sess # <<>> /\ sess[1].role \notin meta.roles
  THEN Location(defaultRouteByRole[sess[1].role])
  ELSE IF meta.requiresAuth /\ sess = <<>> THEN toLogin
  ELSE to

\* A navigation: a redirect of the guard is a navigation of its own, guarded
\* again, until the guard lets a location pass.
RECURSIVE resolve(_, _)
resolve(sess, to) ==
  LET target == beforeEach(sess, to) IN
  IF target = to THEN to ELSE resolve(sess, target)

\* router.push, a link or the address bar, in the running application.
navigate(to) ==
  /\ route' = resolve(getSession, Location(recordRedirect(to)))
  /\ UNCHANGED <<now, tz, members, bills, nextBill, thrown>>
  /\ UNCHANGED accountVars
  /\ UNCHANGED offRouteVars

\* The application starts (first load or reload) at the address `to`: main.ts
\* clears the storage, then the router makes its first navigation.
appStart(to) ==
  /\ session' = storageAfterReset(session)
  /\ loginError' = ""
  /\ route' = resolve(parseSession(session'), Location(recordRedirect(to)))
  /\ UNCHANGED <<now, tz, members, bills, nextBill, thrown>>
  /\ UNCHANGED <<accounts, nextAccount, inflight>>
  /\ UNCHANGED offRouteVars

\* Something other than the application leaves a value under the storage key
\* that getSession does not accept: text that is no JSON, or an object with no role.
InvalidStored ==
  {[raw |-> "{"], [id |-> 1, email |-> <<"a">>, firstName |-> "Alex"]}

storageOverwritten(stored) ==
  /\ session' = <<stored>>
  /\ UNCHANGED <<now, tz, members, bills, nextBill, thrown>>
  /\ UNCHANGED <<accounts, nextAccount, loginError, inflight>>
  /\ UNCHANGED otherVars

\* ------------------------------------------------------------ login view
sessionOf(id) ==
  [id |-> id, email |-> accounts[id].email,
   firstName |-> accounts[id].firstName, role |-> accounts[id].role]

roleMatches(accountRole, formRole) == accountRole = formRole

\* The page the login view pushes for the account's role.
homeOf(role) ==
  IF role = "admin" THEN "add-member"
  ELSE IF role = "member" THEN "member-dashboard"
  ELSE "user-home"

handleLogin(formEmail, password, formRole) ==
  /\ LET email == trim(formEmail) IN
     IF email = <<>> \/ password = ""
     THEN /\ loginError' = "Please provide both email and password."
          /\ UNCHANGED <<session, route>>
     ELSE \E account \in verifyCredentials(email, password) :
            IF account = <<>>
            THEN /\ loginError' = "Invalid email or password."
                 /\ UNCHANGED <<session, route>>
            ELSE IF ~roleMatches(accounts[account[1]].role, formRole)
            THEN /\ loginError' = "This account is registered with another role."
                 /\ UNCHANGED <<session, route>>
            ELSE /\ session' = <<sessionOf(account[1])>>
                 /\ loginError' = ""
                 /\ route' = resolve(parseSession(session'),
                                     Location(homeOf(accounts[account[1]].role)))
  /\ UNCHANGED <<accounts, nextAccount, thrown, inflight>>
  /\ UNCHANGED ledgerVars
  /\ UNCHANGED offRouteVars

\* The header's logout: clearSession(), then router.push to the login page.
logout ==
  /\ session' = <<>>
  /\ route' = resolve(parseSession(session'), LoginLocation)
  /\ UNCHANGED <<accounts, nextAccount, loginError, thrown, inflight>>
  /\ UNCHANGED ledgerVars
  /\ UNCHANGED offRouteVars

\* The edit-profile form's handleSubmit with a changed first name, for the
\* account of the stored session: updateAccount, then updateSession.
editProfileSubmit(firstName) ==
  /\ getSession # <<>>
  /\ LET id == getSession[1].id IN
     IF id \notin DOMAIN accounts
     THEN /\ thrown' = "not-found"
          /\ UNCHANGED <<accounts, session>>
     ELSE /\ accounts' = [accounts EXCEPT ![id] = Merge(@, [firstName |-> firstName])]
          /\ session' = updateSession([firstName |-> firstName,
                                       email |-> getSession[1].email])
          /\ thrown' = ""
  /\ UNCHANGED <<nextAccount, loginError, inflight>>
  /\ UNCHANGED ledgerVars
  /\ UNCHANGED otherVars

\* ------------------------------------------------------------ the directory
NoLedger ==
  /\ now = FirstTick
  /\ tz = 0
  /\ members = (TheMember :> NewMember(0))
  /\ bills = <<>>
  /\ nextBill = 1

InitAccounts ==
  /\ NoLedger
  /\ thrown = ""
  /\ NoAccounts
  /\ NoOther

SignupPayloads ==
  [firstName : {"Alex"}, email : EmailInputs, password : Passwords, role : Roles]

\* The profile form sends names, email and password; the service also takes a role.
AccountUpdates ==
  [firstName : Opt({"Sam"}), password : Opt({"Secret1", ""}),
   role : Opt({"admin"}), email : Opt(EmailInputs)]

LoginEmails == EmailInputs \cup {<<>>, <<" ">>}

NextAccounts ==
  \/ \E payload \in SignupPayloads : createAccount(payload)
  \/ \E id \in AccountIds, updates \in AccountUpdates : updateAccount(id, updates)

\* The account directory, one call at a time.
SpecAccounts == InitAccounts /\ [][NextAccounts]_vars

NextLogin ==
  \/ \E payload \in SignupPayloads : createAccount(payload)
  \/ \E email \in LoginEmails, password \in Passwords \cup {""}, role \in Roles :
       handleLogin(email, password, role)
  \/ logout

\* Sign-up, login and logout, one call at a time.
SpecLogin == InitAccounts /\ [][NextLogin]_vars

RacePayloads ==
  [firstName : {"Alex"}, email : EmailInputs, password : {"secret1"}, role : {"member"}]

NextSignupRace ==
  \/ \E tab \in Tabs, payload \in RacePayloads : createAccountCheck(tab, payload)
  \/ \E tab \in Tabs : createAccountInsert(tab)

\* Two tabs signing up at the same time, their round trips interleaved.
SpecSignupRace == InitAccounts /\ [][NextSignupRace]_vars

\* An administrator and a member are registered; nobody is logged in.
InitSession ==
  /\ NoLedger
  /\ thrown = ""
  /\ accounts =
       (1 :> newAccountDoc([firstName |-> "Alex", email |-> <<"a">>,
                            password |-> "secret1", role |-> "admin"]))
       @@ (2 :> newAccountDoc([firstName |-> "Alex", email |-> <<"b">>,
                               password |-> "secret1", role |-> "member"]))
  /\ nextAccount = 3
  /\ session = <<>>
  /\ loginError = ""
  /\ inflight = [tab \in Tabs |-> NoCall]
  /\ NoOther

NextSession ==
  \/ \E email \in {<<"a">>, <<"b">>}, password \in Passwords, role \in Roles :
       handleLogin(email, password, role)
  \/ logout
  \/ editProfileSubmit("Sam")
  \/ \E to \in RouteNames : navigate(to)
  \/ \E to \in RouteNames : appStart(to)
  \/ \E stored \in InvalidStored : storageOverwritten(stored)

\* One browser: logins, logouts, navigations, reloads.
SpecSession == InitSession /\ [][NextSession]_vars

\* ------------------------------------------------------------ member registry
\* memberService.calculateStatus: end < today, today being the current instant.
calculateStatus(endDate) == IF ParseDate(endDate) < now THEN "Expired" ELSE "Active"

MemberForms == [membershipType : MembershipTypes, startDate : Days, endDate : Days]

\* The add-member form's handleSubmit (without a photo).
addMemberSubmit(id, form) ==
  /\ id \notin DOMAIN members
  /\ members' = members @@ (id :> [membershipType |-> form.membershipType,
                                   startDate |-> form.startDate,
                                   endDate |-> form.endDate,
                                   status |-> calculateStatus(form.endDate),
                                   dues |-> 0])
  /\ thrown' = ""
  /\ UNCHANGED <<now, tz, bills, nextBill>>
  /\ UNCHANGED accountVars
  /\ UNCHANGED otherVars

InitMembers ==
  /\ now \in FirstTick..LastTick
  /\ tz \in TzOffsets
  /\ members = <<>>
  /\ bills = <<>>
  /\ nextBill = 1
  /\ thrown = ""
  /\ NoAccounts
  /\ NoOther

NextMembers ==
  \/ \E id \in MemberIdPool, form \in MemberForms : addMemberSubmit(id, form)
  \/ Tick

\* The member registry, one call at a time.
SpecMembers == InitMembers /\ [][NextMembers]_vars

\* ------------------------------------------------------------ the calendar
\* Day 0 is 2023-01-01.  Months are numbered as Date.prototype.getMonth
\* numbers them, 0 (January) to 11 (December).
IsLeap(year) == (year % 4 = 0 /\ year % 100 # 0) \/ year % 400 = 0

DaysInYear(year) == IF IsLeap(year) THEN 366 ELSE 365

DaysInMonth(year, month) ==
  CASE month = 1 -> (IF IsLeap(year) THEN 29 ELSE 28)
    [] month \in {3, 5, 8, 10} -> 30
    [] OTHER -> 31

\* The number of the day year-01-01.
RECURSIVE DaysBeforeYear(_)
DaysBeforeYear(year) ==
  IF year = 2023 THEN 0
  ELSE IF year > 2023 THEN DaysBeforeYear(year - 1) + DaysInYear(year - 1)
  ELSE DaysBeforeYear(year + 1) - DaysInYear(year)

\* The days of the year before the first of the month.
RECURSIVE DaysBeforeMonth(_, _)
DaysBeforeMonth(year, month) ==
  IF month = 0 THEN 0
  ELSE DaysBeforeMonth(year, month - 1) + DaysInMonth(year, month - 1)

\* The day number of (year, month, day) as the Date object resolves it: a month
\* past December carries into the year, a day past the end of the month runs
\* on into the following month.
DayNumber(year, month, day) ==
  LET y == year + (month \div 12)
      m == month % 12 IN
  DaysBeforeYear(y) + DaysBeforeMonth(y, m) + day - 1

YearOf(dayNumber) ==
  CHOOSE year \in 2022..2026 :
    DaysBeforeYear(year) <= dayNumber /\ dayNumber < DaysBeforeYear(year + 1)

MonthOf(dayNumber) ==
  LET year == YearOf(dayNumber) IN
  CHOOSE month \in 0..11 :
    /\ DayNumber(year, month, 1) <= dayNumber
    /\ dayNumber < DayNumber(year, month, 1) + DaysInMonth(year, month)

DayOfMonth(dayNumber) ==
  dayNumber - DayNumber(YearOf(dayNumber), MonthOf(dayNumber), 1) + 1

\* ------------------------------------------------------------ feePackageService
\* packageConfigs: the duration, in months, of each package type.
packageConfigs ==
  [basic |-> 1, premium |-> 3, gold |-> 6, platinum |-> 12]

PackageTypes == DOMAIN packageConfigs
Durations == {packageConfigs[t] : t \in PackageTypes}

\* calculateEndDate: start is midnight UTC of the start date; getMonth and
\* setMonth work on the local date and keep the local time of day; the result
\* is the UTC date of the moved instant.  (The local offset is taken to be the
\* same at both instants.)
calculateEndDate(startDate, duration) ==
  LET start == ParseDate(startDate)
      localDay == (start + tz) \div TicksPerDay
      timeOfDay == (start + tz) % TicksPerDay
      endLocalDay == DayNumber(YearOf(localDay), MonthOf(localDay) + duration,
                               DayOfMonth(localDay))
      end == endLocalDay * TicksPerDay + timeOfDay - tz IN
  ToISODate(end)

\* The pending call of calculateEndDate returns; its result is recorded.
calculateEndDateCall ==
  /\ calc # <<>>
  /\ calc[1].endDate = <<>>
  /\ calc' = <<[calc[1] EXCEPT !.endDate =
                  <<calculateEndDate(calc[1].startDate, calc[1].duration)>>]>>
  /\ UNCHANGED <<now, tz, members, bills, nextBill, thrown>>
  /\ UNCHANGED accountVars
  /\ UNCHANGED <<packages, nextPackage>>
  /\ UNCHANGED shopVars
  /\ UNCHANGED <<route, targets, selectedMember, editForm, shownBills>>

\* Every start date of 2023 and of 2024 (a leap year).
StartDates == DayNumber(2023, 0, 1)..DayNumber(2024, 11, 31)

InitEndDate ==
  /\ now = FirstTick
  /\ tz \in TzOffsets
  /\ members = <<>>
  /\ bills = <<>>
  /\ nextBill = 1
  /\ thrown = ""
  /\ NoAccounts
  /\ packages = <<>>
  /\ nextPackage = 1
  /\ supplements = <<>>
  /\ orders = <<>>
  /\ nextOrder = 1
  /\ orderCalls = [tab \in Tabs |-> NoOrderCall]
  /\ route = LoginLocation
  /\ targets = <<>>
  /\ selectedMember = <<>>
  /\ editForm = <<>>
  /\ shownBills = {}
  /\ \E startDate \in StartDates, duration \in Durations :
       calc = <<[startDate |-> startDate, duration |-> duration, endDate |-> <<>>]>>

NextEndDate == calculateEndDateCall

\* calculateEndDate alone, over every start date and every package duration.
SpecEndDate == InitEndDate /\ [][NextEndDate]_vars

\* The package's status at insertion: Expired when the end date, moved to local
\* midnight, is before today's local midnight.
packageStatusAtInsertion(endDate) ==
  IF SetHoursZero(ParseDate(endDate)) < SetHoursZero(now) THEN "Expired" ELSE "Active"

\* The fields assignPackage writes on the member.
assignedMemberFields_ResetDues(packageData, endDate) ==
  [membershipType |-> packageData.packageType,
   startDate |-> packageData.startDate,
   endDate |-> endDate,
   status |-> calculateStatus(endDate),
   dues |-> 0]

assignedMemberFields(packageData, endDate) ==
  [membershipType |-> packageData.packageType,
   startDate |-> packageData.startDate,
   endDate |-> endDate,
   status |-> calculateStatus(endDate)]

\* The collection 'feePackages' after addDoc of the new document.
packagesAfterInsert_Superseding(document) ==
  [p \in DOMAIN packages |->
     IF packages[p].memberId = document.memberId
     THEN [packages[p] EXCEPT !.status = "Cancelled"]
     ELSE packages[p]] @@ (nextPackage :> document)

packagesAfterInsert(document) == packages @@ (nextPackage :> document)

\* assignPackage(packageData): the package is inserted, then the member is
\* updated; updateDoc rejects with not-found when the member document is gone.
assignPackage(packageData) ==
  /\ nextPackage <= MaxPackages
  /\ LET endDate == calculateEndDate(packageData.startDate, packageData.duration) IN
     /\ packages' = packagesAfterInsert(
                      [memberId |-> packageData.memberId,
                       packageType |-> packageData.packageType,
                       duration |-> packageData.duration,
                       startDate |-> packageData.startDate,
                       endDate |-> endDate,
                       status |-> packageStatusAtInsertion(endDate)])
     /\ nextPackage' = nextPackage + 1
     /\ IF packageData.memberId \in DOMAIN members
        THEN /\ members' = updateMember(packageData.memberId,
                                        assignedMemberFields(packageData, endDate))
             /\ thrown' = ""
        ELSE /\ members' = members
             /\ thrown' = "not-found"
  /\ UNCHANGED <<now, tz, bills, nextBill, calc>>
  /\ UNCHANGED accountVars
  /\ UNCHANGED shopVars
  /\ UNCHANGED <<route, targets, selectedMember, editForm, shownBills>>

\* The assign-fee form: the member is one of the loaded members, the duration
\* is the configured duration of the chosen package type, the start date is
\* the first or the last day of Days.
PackageForms ==
  {[memberId |-> TheMember, packageType |-> t, duration |-> packageConfigs[t],
    startDate |-> d] : t \in PackageTypes, d \in {0, MaxDay}}

\* A member document with its updatedAt timestamp.
StampedMember(dues) == NewMember(dues) @@ [updatedAt |-> 0]

InitPackages ==
  /\ now \in FirstTick..LastTick
  /\ tz \in TzOffsets
  /\ members = (TheMember :> StampedMember(300)) @@ ("m2" :> StampedMember(500))
  /\ bills = <<>>
  /\ nextBill = 1
  /\ thrown = ""
  /\ NoAccounts
  /\ NoOther

NextPackages ==
  \/ \E packageData \in PackageForms : assignPackage(packageData)
  \/ Tick

\* Package assignments to one member, one call at a time.
SpecPackages == InitPackages /\ [][NextPackages]_vars

\* ------------------------------------------------------------ supplementService
\* getSupplementById: the document, or null (here: the empty sequence).
getSupplementById(id) == IF id \in DOMAIN supplements THEN <<supplements[id]>> ELSE <<>>

\* The stock a line item is charged against: the stock the call has read.
stockCharged_Current(call) == supplements[Head(call.items).supplementId].stock

stockCharged(call) == call.read[1]

\* The stock createOrder writes for a line item, from the stock it has read.
newStock_Unclamped(stock, quantity) == stock - quantity

newStock(stock, quantity) == Max(0, stock - quantity)

\* updateSupplement(id, {stock}), as a value: the collection after the update.
updateSupplement(supps, id, stock) == [supps EXCEPT ![id] = Merge(@, [stock |-> stock])]

\* The loop of createOrder run to its end without interruption: item after
\* item, read the supplement and, when it exists, write its new stock.
RECURSIVE stockAfterItems(_, _)
stockAfterItems(supps, items) ==
  IF items = <<>> THEN supps
  ELSE LET item == Head(items) IN
       IF item.supplementId \in DOMAIN supps
       THEN stockAfterItems(
              updateSupplement(supps, item.supplementId,
                               newStock(supps[item.supplementId].stock, item.quantity)),
              Tail(items))
       ELSE stockAfterItems(supps, Tail(items))

\* The document createOrder inserts.
orderDoc(orderData) == [items |-> orderData.items, status |-> "Completed"]

\* createOrder(orderData), run to completion.
createOrder(orderData) ==
  /\ nextOrder <= MaxOrders
  /\ \A tab \in Tabs : orderCalls[tab].pc = "idle"
  /\ supplements' = stockAfterItems(supplements, orderData.items)
  /\ orders' = orders @@ (nextOrder :> orderDoc(orderData))
  /\ nextOrder' = nextOrder + 1
  /\ thrown' = ""
  /\ UNCHANGED <<now, tz, members, bills, nextBill>>
  /\ UNCHANGED accountVars
  /\ UNCHANGED packageVars
  /\ UNCHANGED <<orderCalls, route, targets, selectedMember, editForm, shownBills>>

\* createOrder in a tab, step by step.  The call starts with its items to do.
createOrderBegin(tab, orderData) ==
  /\ orderCalls[tab].pc = "idle"
  /\ orderCalls' = [orderCalls EXCEPT ![tab] =
                      [pc |-> "read", order |-> <<orderData>>,
                       items |-> orderData.items, read |-> <<>>]]
  /\ UNCHANGED <<now, tz, members, bills, nextBill, thrown>>
  /\ UNCHANGED accountVars
  /\ UNCHANGED packageVars
  /\ UNCHANGED <<supplements, orders, nextOrder, route, targets, selectedMember, editForm, shownBills>>

\* await getSupplementById(item.supplementId); with no item left the loop ends.
createOrderRead(tab) ==
  /\ orderCalls[tab].pc = "read"
  /\ LET call == orderCalls[tab] IN
     orderCalls' = [orderCalls EXCEPT ![tab] =
       IF call.items = <<>>
       THEN [call EXCEPT !.pc = "insert"]
       ELSE LET supplement == getSupplementById(Head(call.items).supplementId) IN
            IF supplement = <<>>
            THEN [call EXCEPT !.items = Tail(@)]
            ELSE [call EXCEPT !.pc = "write", !.read = <<supplement[1].stock>>]]
  /\ UNCHANGED <<now, tz, members, bills, nextBill, thrown>>
  /\ UNCHANGED accountVars
  /\ UNCHANGED packageVars
  /\ UNCHANGED <<supplements, orders, nextOrder, route, targets, selectedMember, editForm, shownBills>>

\* await updateSupplement(item.supplementId, {stock: newStock}): the stock
\* written is computed from the stock read before.
createOrderWrite(tab) ==
  /\ orderCalls[tab].pc = "write"
  /\ LET call == orderCalls[tab]
         item == Head(call.items) IN
     /\ supplements' = updateSupplement(supplements, item.supplementId,
                                        newStock(stockCharged(call), item.quantity))
     /\ orderCalls' = [orderCalls EXCEPT ![tab] =
                         [call EXCEPT !.pc = "read", !.items = Tail(@)]]
  /\ UNCHANGED <<now, tz, members, bills, nextBill, thrown>>
  /\ UNCHANGED accountVars
  /\ UNCHANGED packageVars
  /\ UNCHANGED <<orders, nextOrder, route, targets, selectedMember, editForm, shownBills>>

\* await addDoc(collection(db, 'supplementOrders'), ...); the call returns.
createOrderInsert(tab) ==
  /\ orderCalls[tab].pc = "insert"
  /\ nextOrder <= MaxOrders
  /\ orders' = orders @@ (nextOrder :> orderDoc(orderCalls[tab].order[1]))
  /\ nextOrder' = nextOrder + 1
  /\ orderCalls' = [orderCalls EXCEPT ![tab] = [@ EXCEPT !.pc = "done"]]
  /\ UNCHANGED <<now, tz, members, bills, nextBill, thrown>>
  /\ UNCHANGED accountVars
  /\ UNCHANGED packageVars
  /\ UNCHANGED <<supplements, route, targets, selectedMember, editForm, shownBills>>

SupplementIds == {"s1", "s2"}
Quantities == {1, 3}
\* Line items; "s3" is a supplement that is not (or no longer) stored.
LineItems == [supplementId : SupplementIds \cup {"s3"}, quantity : Quantities]
OrderData == [items : {<<i>> : i \in LineItems} \cup {<<i, j>> : i, j \in LineItems}]

\* Two supplements in stock, 2 units of the first and 5 of the second.
InitShop ==
  /\ now = FirstTick
  /\ tz = 0
  /\ members = <<>>
  /\ bills = <<>>
  /\ nextBill = 1
  /\ thrown = ""
  /\ NoAccounts
  /\ calc = <<>>
  /\ packages = <<>>
  /\ nextPackage = 1
  /\ supplements = ("s1" :> [stock |-> 2]) @@ ("s2" :> [stock |-> 5])
  /\ orders = <<>>
  /\ nextOrder = 1
  /\ orderCalls = [tab \in Tabs |-> NoOrderCall]
  /\ route = LoginLocation
  /\ targets = <<>>
  /\ selectedMember = <<>>
  /\ editForm = <<>>
  /\ shownBills = {}

NextShop == \E orderData \in OrderData : createOrder(orderData)

\* The store, one order at a time.
SpecShop == InitShop /\ [][NextShop]_vars

\* Orders of one line item.
SingleItemOrders == [items : {<<i>> : i \in LineItems}]

NextOrderRace ==
  \E tab \in Tabs :
    \/ \E orderData \in SingleItemOrders : createOrderBegin(tab, orderData)
    \/ createOrderRead(tab)
    \/ createOrderWrite(tab)
    \/ createOrderInsert(tab)

\* Two browser tabs, each placing one order, their steps interleaved.
SpecOrderRace == InitShop /\ [][NextOrderRace]_vars

\* ------------------------------------------------------------ the members list
\* The status the toggle writes, had it left an Expired member alone.
newStatus_ExpiredKept(currentStatus) ==
  IF currentStatus = "Active" THEN "Inactive"
  ELSE IF currentStatus = "Expired" THEN "Expired"
  ELSE "Active"

\* The status the toggle writes.
newStatus(currentStatus) == IF currentStatus = "Active" THEN "Inactive" ELSE "Active"

\* The details panel's toggleMemberStatus for the selected member.
toggleMemberStatus(id) ==
  /\ id \in DOMAIN members
  /\ members' = updateMember(id, [status |-> newStatus(members[id].status)])
  /\ thrown' = ""
  /\ UNCHANGED <<now, tz, bills, nextBill>>
  /\ UNCHANGED accountVars
  /\ UNCHANGED otherVars

\* What deleteMember leaves of the collection 'bills'.
billsAfterMemberDelete_Cascade(id) ==
  [b \in {x \in DOMAIN bills : bills[x].memberId # id} |-> bills[b]]

billsAfterMemberDelete(id) == bills

\* memberService.deleteMember(id): deleteDoc of the member document.
deleteMember(id) ==
  /\ members' = [m \in DOMAIN members \ {id} |-> members[m]]
  /\ bills' = billsAfterMemberDelete(id)
  /\ thrown' = ""
  /\ UNCHANGED <<now, tz, nextBill>>
  /\ UNCHANGED accountVars
  /\ UNCHANGED otherVars

\* ------------------------------------------------------------ notificationService
\* getAllMembers: the ids of the documents of 'members'.
getAllMembers == DOMAIN members

\* The filter of the case 'Active Members'.
isActiveTarget_NotExpired(m) == m.status # "Expired"

isActiveTarget(m) == m.status = "Active"

\* getTargetMembers(targetType, memberId?): the members addressed, by id.  The
\* optional memberId is <<>> when left out; the empty string counts as left out.
getTargetMembers(targetType, memberId) ==
  LET allMembers == getAllMembers IN
  CASE targetType = "All Members" -> allMembers
    [] targetType = "Active Members" -> {m \in allMembers : isActiveTarget(members[m])}
    [] targetType = "Expired Members" -> {m \in allMembers : members[m].status = "Expired"}
    [] targetType = "Specific Member" ->
         IF memberId # <<>> /\ memberId[1] # ""
         THEN {m \in allMembers : m = memberId[1]}
         ELSE {}
    [] OTHER -> {}

\* One call of getTargetMembers, its arguments and its result recorded.
getTargetMembersCall(targetType, memberId) ==
  /\ targets' = <<[targetType |-> targetType, memberId |-> memberId,
                   result |-> getTargetMembers(targetType, memberId)]>>
  /\ UNCHANGED <<now, tz, members, bills, nextBill, thrown>>
  /\ UNCHANGED accountVars
  /\ UNCHANGED <<calc, packages, nextPackage, supplements, orders, nextOrder, orderCalls, route,
               selectedMember, editForm, shownBills>>

TargetTypes ==
  {"All Members", "Active Members", "Expired Members", "Specific Member", "Staff"}
MemberIdArgs == Opt(MemberIdPool \cup {""})

\* Add-member forms that differ in the end date, which decides the status.
AudienceForms == [membershipType : {"basic"}, startDate : {0}, endDate : Days]

NextAudience ==
  \/ \E id \in MemberIdPool, form \in AudienceForms : addMemberSubmit(id, form)
  \/ \E id \in MemberIdPool : toggleMemberStatus(id)
  \/ \E targetType \in TargetTypes, memberId \in MemberIdArgs :
       getTargetMembersCall(targetType, memberId)
  \/ Tick

InitAudience ==
  /\ now \in FirstTick..LastTick
  /\ tz = 0
  /\ members = <<>>
  /\ bills = <<>>
  /\ nextBill = 1
  /\ thrown = ""
  /\ NoAccounts
  /\ NoOther

\* Members registered and switched on and off, audiences resolved in between.
SpecAudience == InitAudience /\ [][NextAudience]_vars

\* ------------------------------------------------------------ removing members
\* The forms of the bills view and of the assign-fee view, for either member.
RemovalBills == [memberId : MemberIdPool, amount : {300}, dueDate : {0}]
RemovalPackages ==
  [memberId : MemberIdPool, packageType : {"basic"},
   duration : {packageConfigs["basic"]}, startDate : {0}]

InitRemoval ==
  /\ now = FirstTick
  /\ tz = 0
  /\ members = [id \in MemberIdPool |-> NewMember(0)]
  /\ bills = <<>>
  /\ nextBill = 1
  /\ thrown = ""
  /\ NoAccounts
  /\ NoOther

NextRemoval ==
  \/ \E b \in RemovalBills : createBill(b.memberId, b.amount, b.dueDate)
  \/ \E billId \in BillIds, method \in PaymentMethods : markBillAsPaid(billId, method)
  \/ \E packageData \in RemovalPackages : assignPackage(packageData)
  \/ \E id \in MemberIdPool : id \in DOMAIN members /\ deleteMember(id)

\* Members with bills and packages, removed from the members list.
SpecRemoval == InitRemoval /\ [][NextRemoval]_vars

\* ------------------------------------------------------------ ledger claims
RECURSIVE SumAmounts(_)
SumAmounts(ids) ==
  IF ids = {} THEN 0
  ELSE LET b == CHOOSE x \in ids : TRUE IN bills[b].amount + SumAmounts(ids \ {b})

UnpaidBillsOf(memberId) ==
  {b \in DOMAIN bills : bills[b].memberId = memberId /\ bills[b].status \in {"Pending", "Overdue"}}

\* C1: after any sequence of completed createBill, markBillAsPaid and deleteBill
\* calls for one member, starting from dues 0 and no bills, the member's dues
\* equal the sum of the amounts of the member's Pending and Overdue bills.
C1_DuesEqualUnpaidSum ==
  members[TheMember].dues = SumAmounts(UnpaidBillsOf(TheMember))

\* C2: a second markBillAsPaid on a bill that is already Paid leaves the
\* member's dues as they were after the first call.
C2_SecondPaymentKeepsDues ==
  [][\A billId \in BillIds, method \in PaymentMethods :
       (/\ billId \in DOMAIN bills
        /\ bills[billId].status = "Paid"
        /\ markBillAsPaid(billId, method))
       => members'[TheMember].dues = members[TheMember].dues]_vars

\* C3: createBill stores the bill as Overdue when its due date is a calendar day
\* strictly before today, and as Pending when it is today or later.
C3_StatusByCalendarDay ==
  [][\A amount \in Amounts, dueDate \in Days :
       createBill(TheMember, amount, dueDate)
       => bills'[nextBill].status = (IF dueDate < Today THEN "Overdue" ELSE "Pending")]_vars

\* C4: markBillAsPaid on an unpaid bill sets its status to Paid, its paymentDate
\* to today, its paymentMethod to the given method, and the member's dues to
\* max(0, dues - amount).
C4_MarkBillAsPaid ==
  [][\A billId \in BillIds, method \in PaymentMethods :
       (/\ billId \in DOMAIN bills
        /\ bills[billId].status # "Paid"
        /\ markBillAsPaid(billId, method))
       => /\ bills'[billId].status = "Paid"
          /\ bills'[billId].paymentDate = <<Today>>
          /\ bills'[billId].paymentMethod = <<method>>
          /\ members'[TheMember].dues =
               Max(0, members[TheMember].dues - bills[billId].amount)]_vars

\* C5 as stated: deleteBill removes the bill; the dues go down by the amount of
\* a Pending or Overdue bill and stay as they are for a Paid bill.
C5_DeleteDecrementsByAmount ==
  [][\A billId \in BillIds :
       (billId \in DOMAIN bills /\ deleteBill(billId))
       => /\ billId \notin DOMAIN bills'
          /\ members'[TheMember].dues =
               (IF bills[billId].status \in {"Pending", "Overdue"}
                THEN members[TheMember].dues - bills[billId].amount
                ELSE members[TheMember].dues)]_vars

\* C5 amended: deleteBill removes the bill; the dues become
\* max(0, dues - amount) for a Pending or Overdue bill and stay as they are for
\* a Paid bill; no other bill changes.
C5_DeleteClampsDues ==
  [][\A billId \in BillIds :
       (billId \in DOMAIN bills /\ deleteBill(billId))
       => /\ billId \notin DOMAIN bills'
          /\ \A other \in DOMAIN bills \ {billId} :
               other \in DOMAIN bills' /\ bills'[other] = bills[other]
          /\ members'[TheMember].dues =
               (IF bills[billId].status \in {"Pending", "Overdue"}
                THEN Max(0, members[TheMember].dues - bills[billId].amount)
                ELSE members[TheMember].dues)]_vars

\* A bill has been deleted while another, Paid, bill of the member is stored.
C5_Witness ==
  /\ \E billId \in 1..(nextBill - 1) : billId \notin DOMAIN bills
  /\ \E billId \in DOMAIN bills : bills[billId].status = "Paid"

\* C15: when createBill's insert succeeds and the member read or the dues
\* write then fails, the error is rethrown, the bill stays stored, the member's
\* dues are unchanged and nothing else is written: the unpaid total of the
\* member's bills grows by the amount and the dues do not.
C15_FailedCreateBillLeavesBill ==
  [][\A amount \in Amounts, dueDate \in Days :
       createBillFailsAfterInsert(TheMember, amount, dueDate)
       => /\ thrown' # ""
          /\ nextBill \in DOMAIN bills'
          /\ bills'[nextBill].memberId = TheMember
          /\ bills'[nextBill].amount = amount
          /\ bills'[nextBill].status \in {"Pending", "Overdue"}
          /\ \A b \in DOMAIN bills : b \in DOMAIN bills' /\ bills'[b] = bills[b]
          /\ members' = members
          /\ SumAmounts(UnpaidBillsOf(TheMember))' =
               SumAmounts(UnpaidBillsOf(TheMember)) + amount]_vars

\* createBill has thrown, its bill is stored unpaid, and the member owes nothing.
C15_Witness ==
  /\ thrown = "store error"
  /\ \E b \in DOMAIN bills : bills[b].status # "Paid" /\ bills[b].memberId = TheMember
  /\ members[TheMember].dues = 0

\* ------------------------------------------------------------ account claims
\* C6: createAccount with an email that, trimmed and lower-cased, equals the
\* normalized email of an existing account throws the duplicate-email error and
\* writes no account document, whatever its casing and surrounding blanks.
C6_DuplicateEmailRejected ==
  [][\A payload \in SignupPayloads :
       (/\ \E a \in DOMAIN accounts :
             normalizeEmail(accounts[a].email) = normalizeEmail(payload.email)
        /\ createAccount(payload))
       => thrown' = DuplicateEmail /\ accounts' = accounts]_vars

\* An account is stored and the last createAccount was rejected as a duplicate.
C6_Witness ==
  /\ accounts # <<>>
  /\ thrown = DuplicateEmail

\* C7: after any sequence of createAccount and updateAccount calls, one at a
\* time, no two distinct accounts have the same normalizedEmail.
C7_UniqueNormalizedEmail ==
  \A a \in DOMAIN accounts, b \in DOMAIN accounts :
    a # b => accounts[a].normalizedEmail # accounts[b].normalizedEmail

\* Two accounts are stored, one of them updated, and the last call was rejected
\* as a duplicate.
C7_Witness ==
  /\ Cardinality(DOMAIN accounts) >= 2
  /\ \E a \in DOMAIN accounts : accounts[a].firstName = "Sam"
  /\ thrown = DuplicateEmail

\* C8: when two interleaved createAccount calls for the same normalized email
\* both pass the existence check before either insert, both succeed and two
\* accounts with that normalizedEmail exist.
C8_BothInsertsSucceed ==
  \A t \in Tabs, u \in Tabs :
    (/\ t # u
     /\ inflight[t].pc = "created"
     /\ inflight[u].pc = "created"
     /\ normalizeEmail(inflight[t].payload[1].email)
          = normalizeEmail(inflight[u].payload[1].email))
    => \E a \in DOMAIN accounts, b \in DOMAIN accounts :
         /\ a # b
         /\ accounts[a].normalizedEmail = normalizeEmail(inflight[t].payload[1].email)
         /\ accounts[b].normalizedEmail = accounts[a].normalizedEmail

\* Both tabs have completed createAccount and two accounts share a normalizedEmail.
C8_Witness ==
  /\ \A t \in Tabs : inflight[t].pc = "created"
  /\ \E a \in DOMAIN accounts, b \in DOMAIN accounts :
       a # b /\ accounts[a].normalizedEmail = accounts[b].normalizedEmail

\* The submitted credentials and role are those of stored account a.
LoginAccepted(email, password, role, a) ==
  /\ trim(email) # <<>>
  /\ password # ""
  /\ accounts[a].normalizedEmail = normalizeEmail(email)
  /\ accounts[a].password = password
  /\ accounts[a].role = role

\* C9: a login attempt changes the stored session only when an account exists
\* for the normalized email whose password equals the submitted one and whose
\* role is the selected one, and then the session is that account's; in every
\* other case the session is left as it was and an error is shown.
C9_SessionOnlyOnValidLogin ==
  [][\A email \in LoginEmails, password \in Passwords \cup {""}, role \in Roles :
       handleLogin(email, password, role)
       => /\ (~\E a \in DOMAIN accounts : LoginAccepted(email, password, role, a))
               => session' = session /\ loginError' # ""
          /\ session' # session
               => \E a \in DOMAIN accounts :
                    /\ LoginAccepted(email, password, role, a)
                    /\ session'[1].id = a
                    /\ session'[1].role = role]_vars

\* A session is stored and a later login attempt was refused.
C9_Witness ==
  /\ session # <<>>
  /\ loginError = "Invalid email or password."

\* ------------------------------------------------------------ member claims
\* C10: calculateStatus returns Expired for every end date strictly before
\* today and Active for every end date that is today or later.
C10_StatusByCalendarDay ==
  [][\A id \in MemberIdPool, form \in MemberForms :
       addMemberSubmit(id, form)
       => members'[id].status = (IF form.endDate < Today THEN "Expired" ELSE "Active")]_vars

\* ------------------------------------------------------------ package claims
\* C11: for every start date and every duration, calculateEndDate returns a
\* date whose month is (start month + duration) mod 12 and whose year is the
\* start year plus the carry of that addition.
C11_EndMonthIsStartPlusDuration ==
  (calc # <<>> /\ calc[1].endDate # <<>>) =>
    LET startDate == calc[1].startDate
        endDate == calc[1].endDate[1]
        sum == MonthOf(startDate) + calc[1].duration IN
    /\ MonthOf(endDate) = sum % 12
    /\ YearOf(endDate) = YearOf(startDate) + (sum \div 12)

\* C12 as stated: assignPackage changes the member's membershipType, startDate,
\* endDate and status and leaves every other field of that member, and every
\* other member record, unchanged.
C12_OnlyFourFieldsChange ==
  [][\A packageData \in PackageForms :
       assignPackage(packageData)
       => /\ DOMAIN members' = DOMAIN members
          /\ \A id \in DOMAIN members \ {packageData.memberId} : members'[id] = members[id]
          /\ \A f \in DOMAIN members[packageData.memberId] \
                        {"membershipType", "startDate", "endDate", "status"} :
               members'[packageData.memberId][f] = members[packageData.memberId][f]]_vars

\* C12 amended: assignPackage sets the member's membershipType, startDate,
\* endDate and status from the package and its updatedAt to the time of the
\* write; every other field of that member, and every other member record, is
\* left unchanged.
C12_FourFieldsAndTimestampChange ==
  [][\A packageData \in PackageForms :
       assignPackage(packageData)
       => LET id == packageData.memberId
              endDate == calculateEndDate(packageData.startDate, packageData.duration) IN
          /\ DOMAIN members' = DOMAIN members
          /\ \A other \in DOMAIN members \ {id} : members'[other] = members[other]
          /\ members'[id].membershipType = packageData.packageType
          /\ members'[id].startDate = packageData.startDate
          /\ members'[id].endDate = endDate
          /\ members'[id].status = calculateStatus(endDate)
          /\ members'[id].updatedAt = now
          /\ \A f \in DOMAIN members[id] \
                        {"membershipType", "startDate", "endDate", "status", "updatedAt"} :
               members'[id][f] = members[id][f]]_vars

\* A package has been assigned to the member, who still owes 300, while the
\* other member is as registered.
C12_Witness ==
  /\ \E p \in DOMAIN packages :
       /\ packages[p].memberId = TheMember
       /\ members[TheMember].membershipType = packages[p].packageType
       /\ members[TheMember].membershipType # "basic"
  /\ members[TheMember].dues = 300
  /\ members["m2"] = StampedMember(500)

\* C13: after any sequence of completed assignPackage calls for one member the
\* member's membershipType, startDate and endDate are those of the most recent
\* call, and every package inserted by an earlier call is still stored with
\* the status it was given at insertion.
C13_LastAssignmentWins ==
  [][/\ \A p \in DOMAIN packages : p \in DOMAIN packages' /\ packages'[p] = packages[p]
     /\ \A packageData \in PackageForms :
          assignPackage(packageData)
          => /\ members'[packageData.memberId].membershipType = packageData.packageType
             /\ members'[packageData.memberId].startDate = packageData.startDate
             /\ members'[packageData.memberId].endDate = packages'[nextPackage].endDate
             /\ packages'[nextPackage].endDate =
                  calculateEndDate(packageData.startDate, packageData.duration)
             /\ packages'[nextPackage].status
                  = packageStatusAtInsertion(packages'[nextPackage].endDate)]_vars

\* Two packages of different types are stored for the member, the earlier one
\* Active, and the member carries the later one.
C13_Witness ==
  /\ {1, 2} \subseteq DOMAIN packages
  /\ packages[1].memberId = TheMember /\ packages[2].memberId = TheMember
  /\ packages[1].packageType # packages[2].packageType
  /\ packages[1].status = "Active"
  /\ members[TheMember].membershipType = packages[2].packageType
  /\ members[TheMember].endDate = packages[2].endDate

\* ------------------------------------------------------------ store claims
\* The units of a supplement that the items of an order ask for.
RECURSIVE QuantityOrdered(_, _)
QuantityOrdered(items, id) ==
  IF items = <<>> THEN 0
  ELSE (IF Head(items).supplementId = id THEN Head(items).quantity ELSE 0)
         + QuantityOrdered(Tail(items), id)

\* C14: createOrder never rejects an order for lack of stock and never writes a
\* negative stock: every ordered supplement is left with max(0, stock -
\* quantity), and the order is inserted.
C14_StockClampedOrderInserted ==
  [][\A orderData \in OrderData :
       createOrder(orderData)
       => /\ thrown' = ""
          /\ nextOrder \in DOMAIN orders'
          /\ orders'[nextOrder].items = orderData.items
          /\ orders'[nextOrder].status = "Completed"
          /\ DOMAIN supplements' = DOMAIN supplements
          /\ \A id \in DOMAIN supplements :
               /\ supplements'[id].stock >= 0
               /\ supplements'[id].stock =
                    Max(0, supplements[id].stock - QuantityOrdered(orderData.items, id))]_vars

\* An order of 3 units of the first supplement, of which 2 were in stock, is
\* stored and the stock is 0.
C14_Witness ==
  /\ 1 \in DOMAIN orders
  /\ orders[1].items = <<[supplementId |-> "s1", quantity |-> 3]>>
  /\ supplements["s1"].stock = 0

\* Both tabs have completed a one-item order for the same supplement, each
\* having read the stock r.  (A quantity is at least 1, so both reads came
\* before either write when r is positive.)
BothOrderedFromStock(t, u, r) ==
  /\ t # u
  /\ orderCalls[t].pc = "done" /\ orderCalls[u].pc = "done"
  /\ orderCalls[t].read = <<r>> /\ orderCalls[u].read = <<r>>
  /\ orderCalls[t].order[1].items[1].supplementId
       = orderCalls[u].order[1].items[1].supplementId

\* C16: when two interleaved createOrder calls for one supplement both read
\* the same stock before either writes, the final stock is what one call alone
\* leaves, and so is higher than max(0, stock - q1 - q2) whenever the stock
\* exceeded both quantities: one decrement is lost.
C16_LostDecrement ==
  \A t \in Tabs, u \in Tabs, r \in 1..5 :
    BothOrderedFromStock(t, u, r) =>
      LET id == orderCalls[t].order[1].items[1].supplementId
          qt == orderCalls[t].order[1].items[1].quantity
          qu == orderCalls[u].order[1].items[1].quantity IN
      /\ supplements[id].stock \in {Max(0, r - qt), Max(0, r - qu)}
      /\ (r > qt /\ r > qu) => supplements[id].stock > Max(0, r - qt - qu)
      /\ {1, 2} \subseteq DOMAIN orders

\* Both orders are stored, both calls read the stock 5, 3 units and 1 unit were
\* sold, and the stock is above 5 - 3 - 1.
C16_Witness ==
  /\ BothOrderedFromStock("tab1", "tab2", 5)
  /\ orderCalls["tab1"].order[1].items[1].quantity = 3
  /\ orderCalls["tab2"].order[1].items[1].quantity = 1
  /\ supplements["s2"].stock > 1
  /\ {1, 2} \subseteq DOMAIN orders

C20_DeleteMemberNoCascade ==
  [][\A id \in MemberIdPool :
       (id \in DOMAIN members /\ deleteMember(id))
       => /\ DOMAIN members' = DOMAIN members \ {id}
          /\ \A m \in DOMAIN members' : members'[m] = members[m]
          /\ bills' = bills
          /\ packages' = packages
          /\ thrown' = ""]_vars

\* The member is deleted while a bill and a package of the member are stored.
C20_Witness ==
  /\ TheMember \notin DOMAIN members
  /\ \E b \in DOMAIN bills : bills[b].memberId = TheMember /\ bills[b].status # "Paid"
  /\ \E p \in DOMAIN packages : packages[p].memberId = TheMember

\* ------------------------------------------------------------ session claims
\* C18: every application start and every logout leaves getSession null, and
\* getSession stays null until a login succeeds.
C18_SessionClearedUntilLogin ==
  [][/\ (logout \/ \E to \in RouteNames : appStart(to)) => getSession' = <<>>
     /\ (getSession = <<>> /\ getSession' # <<>>)
          => \E email \in {<<"a">>, <<"b">>}, password \in Passwords, role \in Roles :
               /\ handleLogin(email, password, role)
               /\ loginError' = ""
               /\ \E a \in DOMAIN accounts : session' = <<sessionOf(a)>>]_vars

\* Nobody is logged in after a user who was logged in changed the profile.
C18_Witness ==
  /\ session = <<>>
  /\ route.name = "login"
  /\ \E a \in DOMAIN accounts : accounts[a].firstName = "Sam"

\* C19: while no valid session is stored (nothing, text that does not parse, or
\* an object without a role), a navigation to a route other than login and
\* signup ends on login with the requested path in the redirect query (for
\* '/', the path of the page it stands for), and no step enters another route.
C19_NoSessionNoProtectedRoute ==
  [][/\ \A to \in RouteNames \ PublicRoutes :
          ((navigate(to) \/ appStart(to)) /\ getSession' = <<>>)
          => route' = [name |-> "login", redirect |-> <<recordRedirect(to)>>]
     /\ (getSession' = <<>> /\ route' # route) => route'.name \in PublicRoutes]_vars

\* A value that does not parse is stored and a navigation to create-bills has
\* been sent to login.
C19_Witness ==
  /\ session = <<[raw |-> "{"]>>
  /\ route = [name |-> "login", redirect |-> <<"create-bills">>]

\* ------------------------------------------------------------ profile edits
\* The updates the profile editor is driven with: one field at a time, or
\* every field together.
ProfileUpdates ==
  {u \in [firstName : Opt({"Sam"}), password : Opt({"Secret1", ""}),
          role : Opt({"admin"}), email : Opt(EmailInputs \cup {<<"C">>})] :
     \/ Cardinality({f \in DOMAIN u : u[f] # <<>>}) <= 1
     \/ \A f \in DOMAIN u : u[f] # <<>>}

NextProfile ==
  \E id \in AccountIds, updates \in ProfileUpdates : updateAccount(id, updates)

\* Profile edits over two stored accounts.
SpecProfile == InitSession /\ [][NextProfile]_vars

openDetails(id) ==
  /\ id \in DOMAIN members
  /\ selectedMember' = <<id>>
  /\ editForm' = <<[membershipType |-> members[id].membershipType,
                    startDate |-> members[id].startDate,
                    endDate |-> members[id].endDate,
                    dues |-> members[id].dues]>>
  /\ UNCHANGED <<now, tz, members, bills, nextBill, thrown>>
  /\ UNCHANGED accountVars
  /\ UNCHANGED <<calc, packages, nextPackage, supplements, orders, nextOrder, orderCalls,
                 route, targets, shownBills>>

\* The admin types an end date into the open form.
editFormInput(endDate) ==
  /\ editForm # <<>>
  /\ editForm' = <<[editForm[1] EXCEPT !.endDate = endDate]>>
  /\ UNCHANGED <<now, tz, members, bills, nextBill, thrown>>
  /\ UNCHANGED accountVars
  /\ UNCHANGED <<calc, packages, nextPackage, supplements, orders, nextOrder, orderCalls,
                 route, targets, selectedMember, shownBills>>

\* The fields the form's updateMember writes, had it kept the stored status.
editedMemberFields_StatusKept(id, form) ==
  [membershipType |-> form.membershipType, startDate |-> form.startDate,
   endDate |-> form.endDate, dues |-> form.dues, status |-> members[id].status]

\* The fields the form's updateMember writes: every form field and the status
\* calculated from the form's end date.
editedMemberFields(id, form) ==
  [membershipType |-> form.membershipType, startDate |-> form.startDate,
   endDate |-> form.endDate, dues |-> form.dues,
   status |-> calculateStatus(form.endDate)]

\* The form's updateMember for the selected member; updateDoc rejects with not-found when the member document is gone.
editMemberSubmit ==
  /\ selectedMember # <<>>
  /\ LET id == selectedMember[1] IN
     IF id \in DOMAIN members
     THEN /\ members' = updateMember(id, editedMemberFields(id, editForm[1]))
          /\ thrown' = ""
     ELSE /\ thrown' = "not-found"
          /\ UNCHANGED members
  /\ UNCHANGED <<now, tz, bills, nextBill>>
  /\ UNCHANGED accountVars
  /\ UNCHANGED <<calc, packages, nextPackage, supplements, orders, nextOrder, orderCalls,
                 route, targets, selectedMember, editForm, shownBills>>

\* ------------------------------------------------------------ updatePackage
\* The data updatePackage hands to updateDoc: the given fields and, when a start
\* date or a duration is given and the package exists, the recalculated end date
\* and status.
updateData(id, packageData) ==
  LET given == [f \in {g \in DOMAIN packageData : packageData[g] # <<>>}
                  |-> packageData[f][1]]
  IN IF (packageData.startDate # <<>> \/ packageData.duration # <<>>)
        /\ id \in DOMAIN packages
     THEN LET startDate == IF packageData.startDate # <<>> THEN packageData.startDate[1]
                           ELSE packages[id].startDate
              duration == IF packageData.duration # <<>> THEN packageData.duration[1]
                          ELSE packages[id].duration
              endDate == calculateEndDate(startDate, duration)
          IN [endDate |-> endDate,
              status |-> IF ParseDate(endDate) < now THEN "Expired" ELSE "Active"]
             @@ given
     ELSE given

\* updatePackage(id, packageData): the package is updated, then the member is
\* when the update made the package Active and names a member.  updateDoc
\* rejects with not-found for a missing document and with invalid-argument for
\* a field whose value is undefined.
updatePackage(id, packageData) ==
  /\ LET data == updateData(id, packageData) IN
     IF id \notin DOMAIN packages
     THEN /\ thrown' = "not-found"
          /\ UNCHANGED <<packages, members>>
     ELSE /\ packages' = [packages EXCEPT ![id] = data @@ @]
          /\ IF /\ "status" \in DOMAIN data
                /\ data.status = "Active"
                /\ packageData.memberId # <<>>
             THEN IF packageData.packageType = <<>> \/ packageData.startDate = <<>>
                  THEN /\ thrown' = "invalid-argument"
                       /\ UNCHANGED members
                  ELSE IF packageData.memberId[1] \notin DOMAIN members
                  THEN /\ thrown' = "not-found"
                       /\ UNCHANGED members
                  ELSE /\ members' = updateMember(packageData.memberId[1],
                                        [membershipType |-> packageData.packageType[1],
                                         startDate |-> data.startDate,
                                         endDate |-> data.endDate,
                                         status |-> calculateStatus(data.endDate)])
                       /\ thrown' = ""
             ELSE /\ thrown' = ""
                  /\ UNCHANGED members
  /\ UNCHANGED <<now, tz, bills, nextBill, calc, nextPackage>>
  /\ UNCHANGED accountVars
  /\ UNCHANGED shopVars
  /\ UNCHANGED <<route, targets, selectedMember, editForm, shownBills>>

\* ------------------------------------------------------------ end-date writers
\* The admin's package updates: of the member, the type, the start date and the
\* duration, any may be left out.
PackageUpdates ==
  [memberId : Opt({TheMember}), packageType : Opt({"premium"}),
   startDate : Opt({MaxDay}), duration : Opt({1})]

\* The forms of this study assign a monthly package from the first day.
MonthlyForms == {f \in PackageForms : f.packageType = "basic" /\ f.startDate = 0}

NextEndDateWriters ==
  \/ \E form \in AudienceForms : addMemberSubmit(TheMember, form)
  \/ openDetails(TheMember)
  \/ \E endDate \in Days : editFormInput(endDate)
  \/ editMemberSubmit
  \/ \E packageData \in MonthlyForms : assignPackage(packageData)
  \/ \E id \in 1..MaxPackages, packageData \in PackageUpdates :
       updatePackage(id, packageData)
  \/ Tick

InitEndDateWriters ==
  /\ now = FirstTick
  /\ tz \in TzOffsets
  /\ members = <<>>
  /\ bills = <<>>
  /\ nextBill = 1
  /\ thrown = ""
  /\ NoAccounts
  /\ calc = <<>>
  /\ packages = <<>>
  /\ nextPackage = MaxPackages
  /\ supplements = <<>>
  /\ orders = <<>>
  /\ nextOrder = 1
  /\ orderCalls = [tab \in Tabs |-> NoOrderCall]
  /\ route = LoginLocation
  /\ targets = <<>>
  /\ selectedMember = <<>>
  /\ editForm = <<>>
  /\ shownBills = {}

\* Every operation that writes a member's end date, one call at a time, for
\* one member and the last package the bound admits.
SpecEndDateWriters == InitEndDateWriters /\ [][NextEndDateWriters]_vars

\* ------------------------------------------------------------ end-date claims
\* C22: every operation that writes a member's end date (the add-member form,
\* the edit-member form, assignPackage, updatePackage) writes, in the same
\* update, the status calculateStatus gives for the end date it writes.
C22_StatusWrittenWithEndDate ==
  [][\A id \in DOMAIN members' :
       (id \notin DOMAIN members \/ members'[id] # members[id])
       => members'[id].status = calculateStatus(members'[id].endDate)]_vars

\* updatePackage gave the member the premium type, and then the edit form
\* wrote the first day as the end date, after that day had begun.
C22_Witness ==
  /\ TheMember \in DOMAIN members
  /\ members[TheMember].membershipType = "premium"
  /\ members[TheMember].startDate = MaxDay
  /\ members[TheMember].endDate = 0
  /\ members[TheMember].status = "Expired"
  /\ editForm # <<>>
  /\ editForm[1].endDate = 0
  /\ editForm[1].membershipType = "premium"

\* ------------------------------------------------------------ the member's bill views
\* billService.getAllBills: every document of the collection, with its id.
getAllBills == {[id |-> b] @@ bills[b] : b \in DOMAIN bills}

\* MemberBillNotifications' loadBills, on the page a logged-in member opens:
\* the view keeps every bill getAllBills returns.
loadBills ==
  /\ getSession # <<>>
  /\ getSession[1].role = "member"
  /\ shownBills' = getAllBills
  /\ UNCHANGED <<now, tz, members, bills, nextBill, thrown>>
  /\ UNCHANGED accountVars
  /\ UNCHANGED <<calc, packages, nextPackage, supplements, orders, nextOrder, orderCalls,
                 route, targets, selectedMember, editForm>>

InitMemberBills ==
  /\ now = FirstTick
  /\ tz = 0
  /\ members = [m \in MemberIdPool |-> NewMember(0)]
  /\ bills = <<>>
  /\ nextBill = 1
  /\ thrown = ""
  /\ accounts =
       (1 :> newAccountDoc([firstName |-> "Alex", email |-> <<"a">>,
                            password |-> "secret1", role |-> "admin"]))
       @@ (2 :> newAccountDoc([firstName |-> "Alex", email |-> <<"b">>,
                               password |-> "secret1", role |-> "member"]))
  /\ nextAccount = 3
  /\ session = <<>>
  /\ loginError = ""
  /\ inflight = [tab \in Tabs |-> NoCall]
  /\ NoOther

NextMemberBills ==
  \/ \E email \in {<<"a">>, <<"b">>}, role \in {"admin", "member"} :
       handleLogin(email, "secret1", role)
  \/ \E memberId \in MemberIdPool, amount \in Amounts : createBill(memberId, amount, MaxDay)
  \/ \E billId \in BillIds, method \in PaymentMethods : markBillAsPaid(billId, method)
  \/ loadBills

\* The ledger of two members, and a member who opens the bill notifications.
SpecMemberBills == InitMemberBills /\ [][NextMemberBills]_vars

\* ------------------------------------------------------------ bill-view claims
\* C23: the bills a member-facing bill view shows to the logged-in member are
\* the bills of that one member: no two bills shown carry different member ids.
C23_ShownBillsOfOneMember ==
  \A b1, b2 \in shownBills : b1.memberId = b2.memberId

\* ------------------------------------------------------------ the guard, every role
\* Two accounts are stored, an admin's and one of any role.
InitGuard ==
  /\ NoLedger
  /\ thrown = ""
  /\ \E role \in Roles :
       accounts =
         (1 :> newAccountDoc([firstName |-> "Alex", email |-> <<"a">>,
                              password |-> "secret1", role |-> "admin"]))
         @@ (2 :> newAccountDoc([firstName |-> "Alex", email |-> <<"b">>,
                                 password |-> "secret1", role |-> role]))
  /\ nextAccount = 3
  /\ session = <<>>
  /\ loginError = ""
  /\ inflight = [tab \in Tabs |-> NoCall]
  /\ NoOther

NextGuard ==
  \/ \E email \in {<<"a">>, <<"b">>}, role \in Roles : handleLogin(email, "secret1", role)
  \/ \E to \in RouteNames : navigate(to)
  \/ \E stored \in InvalidStored : storageOverwritten(stored)

\* Navigations under no session and under a session of each role.
SpecGuard == InitGuard /\ [][NextGuard]_vars

\* ------------------------------------------------------------ guard claims
\* C24: a navigation the guard lets end on a route of a role-restricted subtree
\* has a session whose role is admin or one of the subtree's roles; a member or
\* user session aiming at a subtree that excludes its role ends on its own
\* default route (member-dashboard or user-home).
C24_RestrictedRoutesNeedTheRole ==
  [][\A to \in RouteNames :
       navigate(to)
       => LET sess == getSession
              entered == routeMeta(route'.name).roles
              aimed == routeMeta(recordRedirect(to)).roles
          IN /\ entered # {}
                => sess # <<>> /\ sess[1].role \in {"admin"} \cup entered
             /\ (sess # <<>> /\ sess[1].role \in {"member", "user"}
                 /\ aimed # {} /\ sess[1].role \notin aimed)
                => route' = Location(IF sess[1].role = "member" THEN "member-dashboard"
                                     ELSE "user-home")]_vars

\* A user is logged in and stands on user-home, while add-member and
\* member-dashboard exclude the role.
C24_Witness ==
  /\ getSession # <<>>
  /\ getSession[1].role = "user"
  /\ route = Location("user-home")
  /\ "user" \notin routeMeta("add-member").roles \cup routeMeta("member-dashboard").roles

\* C25: the guard never loops: under no session and under a session of each
\* role, the location the guard redirects a target to is let pass when the
\* guard runs on it, so a navigation ends on the target or on its first redirect.
C25_RedirectTargetAccepted ==
  [][\A to \in RouteNames :
       navigate(to)
       => LET requested == Location(recordRedirect(to))
              first == beforeEach(getSession, requested)
          IN /\ beforeEach(getSession, first) = first
             /\ route' = first]_vars

\* A member is logged in and stands on member-dashboard, where the guard sends
\* the member from login, from signup and from the admin's and the user's pages.
C25_Witness ==
  /\ getSession # <<>>
  /\ getSession[1].role = "member"
  /\ route = Location("member-dashboard")
  /\ \A to \in {"login", "signup", "add-member", "create-bills", "user-home"} :
       beforeEach(getSession, Location(to)) = route

\* ------------------------------------------------------------ bill-status claims
\* C26: Paid is absorbing and the only status change an operation makes is to
\* Paid: a Paid bill stays Paid while it exists, and a bill created Pending is
\* never moved to Overdue, however far in the past its due date lies.
C26_OnlyChangeIsToPaid ==
  [][\A b \in DOMAIN bills \cap DOMAIN bills' :
       /\ bills[b].status = "Paid" => bills'[b].status = "Paid"
       /\ bills'[b].status # bills[b].status => bills'[b].status = "Paid"]_vars

\* A bill is still Pending on a day after its due date, next to a Paid bill.
C26_Witness ==
  /\ \E b \in DOMAIN bills :
       /\ bills[b].status = "Pending"
       /\ SetHoursZero(ParseDate(bills[b].dueDate)) < SetHoursZero(now)
  /\ \E b \in DOMAIN bills : bills[b].status = "Paid"

\* C27: starting from dues 0, the member's dues are never negative under
\* createBill with positive amounts, markBillAsPaid and deleteBill, a bill
\* paid or deleted more than once included.
C27_DuesNeverNegative ==
  \A m \in DOMAIN members : members[m].dues >= 0

\* A bill of 300 was paid twice: the dues are 200 while a bill of 500 is unpaid.
C27_Witness ==
  /\ members[TheMember].dues = 200
  /\ \E b \in DOMAIN bills : bills[b].amount = 300 /\ bills[b].status = "Paid"
  /\ \E b \in DOMAIN bills : bills[b].amount = 500 /\ bills[b].status # "Paid"

\* ------------------------------------------------------------ the status toggle
\* Two members are stored with their timestamps; the first was registered now,
\* with any end date and the status calculated from it.
InitToggle ==
  /\ now \in FirstTick..LastTick
  /\ tz \in TzOffsets
  /\ \E endDate \in Days :
       members = (TheMember :> [StampedMember(0) EXCEPT
                                  !.endDate = endDate,
                                  !.status = calculateStatus(endDate),
                                  !.updatedAt = now])
                 @@ ("m2" :> StampedMember(300))
  /\ bills = <<>>
  /\ nextBill = 1
  /\ thrown = ""
  /\ NoAccounts
  /\ NoOther

NextToggle ==
  \/ \E id \in MemberIdPool : toggleMemberStatus(id)
  \/ Tick

\* Members switched on and off while time passes.
SpecToggle == InitToggle /\ [][NextToggle]_vars

BackdatedForms ==
  {[memberId |-> TheMember, packageType |-> "basic",
    duration |-> packageConfigs["basic"], startDate |-> d - 31] : d \in Days}

NextBackdated ==
  \/ \E packageData \in BackdatedForms : assignPackage(packageData)
  \/ Tick

\* Monthly packages that end around today, one call at a time.
SpecBackdated == InitPackages /\ [][NextBackdated]_vars

\* ------------------------------------------------------------ package-status claims
\* C29: after a completed assignPackage call the status stored on the new
\* package and the status stored on the member agree, also when the end date
\* is today.
C29_PackageAndMemberAgree ==
  [][\A packageData \in BackdatedForms :
       assignPackage(packageData)
       => packages'[nextPackage].status = members'[packageData.memberId].status]_vars

\* ------------------------------------------------------------ the form and the ledger
\* The admin opens the member's details, changes the end date in the form and
\* saves, while bills are created, paid and deleted.
NextEditRace ==
  \/ openDetails(TheMember)
  \/ \E endDate \in Days : editFormInput(endDate)
  \/ editMemberSubmit
  \/ \E amount \in Amounts : createBill(TheMember, amount, MaxDay)
  \/ \E billId \in BillIds, method \in PaymentMethods : markBillAsPaid(billId, method)
  \/ \E billId \in BillIds : deleteBill(billId)

\* The edit-member form interleaved with the ledger's calls.
SpecEditRace == InitLedger /\ [][NextEditRace]_vars

\* ------------------------------------------------------------ form claims
\* C30: saving the edit-member form, in which the admin left the dues alone,
\* keeps the member's dues as the ledger last wrote them: a createBill,
\* markBillAsPaid or deleteBill completed since openDetails is not lost.
C30_SaveKeepsLedgerDues ==
  [][(editMemberSubmit /\ selectedMember[1] \in DOMAIN members)
       => members'[selectedMember[1]].dues = members[selectedMember[1]].dues]_vars

=============================================================================
